---- MODULE Spec2Model ----
(***************************************************************************)
(* CuraCloud server: the Express routes of server/routes.ts over the       *)
(* MongoStorage adapter of server/storage.ts.                              *)
(*                                                                         *)
(* A request is handled in steps separated by the handler's awaits on the  *)
(* store.  A handler's middleware chain and its first store operation are  *)
(* one step (the "arrival" action, named after the route); every further   *)
(* store operation of the handler is a step of its own, taken from the bag *)
(* of in-flight requests, so that the steps of concurrent requests         *)
(* interleave as the event loop lets them.                                 *)
(*                                                                         *)
(* The client application (App.tsx, ProtectedRoute.tsx, lib/auth) is the   *)
(* browser of c1: its path, and the state and data of its /api/me query.   *)
(***************************************************************************)
EXTENDS Integers, Sequences, FiniteSets, Bags, TLC

\* ---------------------------------------------------------------- bounds
MaxUsers == 3        \* documents the users collection may hold
MaxInFlight == 2     \* requests suspended at an await at the same time
MaxNotes == 1        \* documents the notes collection may hold
MaxRecords == 1      \* documents the records collection may hold

Clients == {"c1", "c2"}          \* browsers, one session cookie each
UserIds == 1..MaxUsers           \* _id of the n-th inserted user is n

\* ---------------------------------------------------------------- schema
Roles == {"patient", "doctor", "admin"}

Undefined == "undefined"         \* a text field the body does not carry
NoId == 0                        \* an id field the body does not carry

Ada == [name |-> "Ada", email |-> "ada@cura.io", password |-> "adapass1", role |-> "admin"]
Pat == [name |-> "Pat", email |-> "pat@cura.io", password |-> "patpass1", role |-> "patient"]
Dan == [name |-> "Dan", email |-> "dan@cura.io", password |-> "danpass1", role |-> "doctor"]
People == {Ada, Pat, Dan}
Pam == [name |-> "Pam", email |-> "pam@cura.io", password |-> "pampass1", role |-> "patient"]
Emails == {p.email : p \in People}

\* z.string().email(): the well-formed addresses among the strings used here
IsEmail(s) == s \in Emails

\* length of the password strings used here (z.string().min(6))
StrLen(s) == CASE s = "short" -> 5
               [] s = Undefined -> 0
               [] OTHER -> 8

\* insertUserSchema.parse: TRUE when the body passes
insertUserSchemaOk(b) ==
    /\ b.name # Undefined /\ b.name # ""
    /\ IsEmail(b.email)
    /\ StrLen(b.password) >= 6
    /\ b.role \in Roles

\* insertUserSchema.parse: the parsed value (verified defaults to false)
insertUserSchemaParse(b) ==
    [name |-> b.name, email |-> b.email, password |-> b.password, role |-> b.role,
     verified |-> IF b.verified = Undefined THEN FALSE ELSE b.verified = "true"]

\* insertNoteSchema.parse of {...body, doctorId}: TRUE when it passes
insertNoteSchemaOk(b) ==
    /\ b.doctorId # NoId
    /\ b.patientId # NoId
    /\ b.consultationType # Undefined
    /\ b.content # Undefined

\* insertRecordSchema.parse of {...body, patientId}: TRUE when it passes
insertRecordSchemaOk(b) ==
    /\ b.patientId # NoId
    /\ b.filename # Undefined
    /\ b.fileSize >= 0

\* insertAccessSchema.parse: TRUE when it passes
insertAccessSchemaOk(b) == b.patientId # NoId /\ b.doctorId # NoId

\* ---------------------------------------------------------------- state
VARIABLES
    users,      \* collection users: sequence of documents, _id = position
    records,    \* collection records: sequence of documents, _id = position
    access,     \* collection access: bag of documents (ids and dates left out)
    notes,      \* collection notes: sequence of documents
    session,    \* session store: client -> req.session.user (NoUser when unset)
    inflight,   \* bag of the requests suspended at an await
    lastResp,   \* the response sent last
    hist,       \* history: the last undisturbed writes of the access collection
    conn,       \* MongoStorage: db (the handle is set), connects (client.connect() calls)
    browser     \* the client application in the browser of c1: location, /api/me query

store == <<users, records, access, notes>>
vars == <<users, records, access, notes, session, inflight, lastResp, hist, conn, browser>>

NoUser == [_id |-> NoId, email |-> "", role |-> "", name |-> "", verified |-> FALSE]
NoData == [name |-> "", email |-> "", password |-> "", role |-> "", verified |-> FALSE]
NoReq == [kind |-> "idle", pc |-> "", uid |-> NoId, patientId |-> NoId,
          doctorId |-> NoId, userData |-> NoData, solo |-> FALSE, rawVerified |-> ""]
NoResp == [kind |-> "", status |-> 0, msg |-> "", uid |-> NoId, records |-> {}, raw |-> ""]

\* hist.op = "grant": the last n (up to 2) grant-access requests for the pair ran one
\* after the other with no other writer of the collection in flight, and since the
\* first of them began nothing else has written the collection.
\* hist.op = "revoke": a revoke-access for the pair has completed with no grant-access
\* for it in flight, and no grant-access has been admitted since.
NoHist == [op |-> "", patientId |-> NoId, doctorId |-> NoId, n |-> 0]

\* no page of the client application is open
NoPage == [location |-> "", status |-> "closed", user |-> NoUser, via |-> ""]

\* private db: Db | null = null, before any request
NotConnected == [db |-> FALSE, connects |-> 0]

\* the handle as the first request's connect() left it
Connected == [db |-> TRUE, connects |-> 1]

\* ---------------------------------------------------------------- store adapter
Min(S) == CHOOSE x \in S : \A y \in S : x <= y

\* getUserByEmail with verified: true added to the filter
getUserByEmailVerified(us, email) ==
    LET m == {i \in DOMAIN us : us[i].email = email /\ us[i].verified}
    IN IF m = {} THEN 0 ELSE CHOOSE x \in m : \A y \in m : x <= y

\* findOne({email}): the first match in natural (insertion) order, 0 for none
getUserByEmail(us, email) ==
    LET m == {i \in DOMAIN us : us[i].email = email}
    IN IF m = {} THEN NoId ELSE Min(m)

\* findOne({_id})
getUser(us, id) == IF id \in DOMAIN us THEN id ELSE NoId

\* insertOne({...user})
createUser(us, u) == Append(us, u)

\* updateOne with a replacement document in the place of {$set: {verified}}
updateUserVerificationReplace(us, id, v) ==
    IF id \in DOMAIN us THEN [us EXCEPT ![id] = [NoData EXCEPT !.verified = v]] ELSE us

\* updateOne({_id}, {$set: {verified}}): no document matched, nothing changes
updateUserVerification(us, id, v) ==
    IF id \in DOMAIN us THEN [us EXCEPT ![id].verified = v] ELSE us

\* find({verified: false}) without the role filter
getPendingVerificationsAnyRole(us) == {i \in DOMAIN us : us[i].verified = FALSE}

\* find({verified: false, role: {$in: [doctor, patient]}})
getPendingVerifications(us) ==
    {i \in DOMAIN us : us[i].verified = FALSE /\ us[i].role \in {"doctor", "patient"}}

getAllUsers(us) == DOMAIN us

createRecord(rs, r) == Append(rs, r)

\* find({}) in the place of find({patientId})
getRecordsByPatientAll(rs, p) == DOMAIN rs

getRecordsByPatient(rs, p) == {i \in DOMAIN rs : rs[i].patientId = p}

getAllRecords(rs) == DOMAIN rs

\* deleteOne with granted: false added to the filter
deleteOneAccessRevoked(acc, p, d) ==
    LET m == {r \in BagToSet(acc) : r.patientId = p /\ r.doctorId = d /\ ~r.granted}
    IN IF m = {} THEN acc ELSE acc (-) SetToBag({CHOOSE r \in m : TRUE})

\* deleteOne({patientId, doctorId}): one matching document goes, if there is any
deleteOneAccess(acc, p, d) ==
    LET m == {r \in BagToSet(acc) : r.patientId = p /\ r.doctorId = d}
    IN IF m = {} THEN acc ELSE acc (-) SetToBag({CHOOSE r \in m : TRUE})

\* insertOne({...access})
insertOneAccess(acc, row) == acc (+) SetToBag({row})

\* deleteOne({doctorId}) in the place of deleteOne({patientId, doctorId})
revokeAccessAnyPatient(acc, p, d) ==
    LET m == {r \in BagToSet(acc) : r.doctorId = d}
    IN IF m = {} THEN acc ELSE acc (-) SetToBag({CHOOSE r \in m : TRUE})

\* deleteOne({patientId, doctorId})
revokeAccess(acc, p, d) == deleteOneAccess(acc, p, d)

\* find({patientId, granted: true})
getPatientAccess(acc, p) == {r \in BagToSet(acc) : r.patientId = p /\ r.granted}

\* find({doctorId, granted: true})
getDoctorAccess(acc, d) == {r \in BagToSet(acc) : r.doctorId = d /\ r.granted}

\* checkAccess with the two ids in each other's place in the filter
checkAccessSwapped(acc, p, d) ==
    \E r \in BagToSet(acc) : r.patientId = d /\ r.doctorId = p /\ r.granted = TRUE

\* checkAccess with patientId dropped from the filter
checkAccessAnyPatient(acc, p, d) ==
    \E r \in BagToSet(acc) : r.doctorId = d /\ r.granted = TRUE

\* !!findOne({patientId, doctorId, granted: true})
checkAccess(acc, p, d) ==
    \E r \in BagToSet(acc) : r.patientId = p /\ r.doctorId = d /\ r.granted = TRUE

createNote(ns, n) == Append(ns, n)

\* ---------------------------------------------------------------- helpers
Pending(kind) == {r \in BagToSet(inflight) : r.kind = kind}
NumPending(kind) == BagCardinality([r \in Pending(kind) |-> inflight[r]])

\* the response: its status and message, the session user it answers (for register
\* and login: the user id it carries), the ids of the documents it lists, and raw:
\* for a 201 of register, the verified field of the request body; for a 200 of me,
\* the verified field of the user in the response body; for a 200 of post-records,
\* "patientId" when the request body carried a patientId of its own
ReplyRaw(kind, status, msg, uid, recs, raw) ==
    lastResp' = [kind |-> kind, status |-> status, msg |-> msg, uid |-> uid,
                 records |-> recs, raw |-> raw]

Reply(kind, status, msg, uid, recs) == ReplyRaw(kind, status, msg, uid, recs, "")

\* the handler reaches an await: the request joins the in-flight requests
Suspend(req) ==
    /\ BagCardinality(inflight) < MaxInFlight
    /\ inflight' = inflight (+) SetToBag({req})

\* the handler's last continuation ran
Finish(r) == inflight' = inflight (-) SetToBag({r})

\* a snapshot that takes its fields from the first document of the collection
SnapshotOfFirst(us, id) ==
    [_id |-> id, email |-> us[1].email, role |-> us[1].role,
     name |-> us[1].name, verified |-> us[1].verified]

\* req.session.user = {_id, email, role, name, verified} of the user found
Snapshot(us, id) ==
    [_id |-> id, email |-> us[id].email, role |-> us[id].role,
     name |-> us[id].name, verified |-> us[id].verified]

\* ---------------------------------------------------------------- middleware
\* requireAuth that looks the session user's verified flag up in the store
requireAuthStored(u) == IF u = NoUser \/ ~users[u._id].verified THEN 401 ELSE 0

\* requireAuth: 401 without a session user, 0 to go on
requireAuth(u) == IF u = NoUser THEN 401 ELSE 0

\* requireRole that only looks for a session user
requireRoleAnyUser(u, roles) == IF u = NoUser THEN 403 ELSE 0

\* requireRole(roles): 403 when the session role is not in roles, 0 to go on
requireRole(u, roles) == IF u = NoUser \/ u.role \notin roles THEN 403 ELSE 0

\* the chain requireAuth, requireRole(roles): the status it answers, 0 to go on
Guard(u, roles) == IF requireAuth(u) # 0 THEN requireAuth(u) ELSE requireRole(u, roles)

\* a guard that answers with the status alone
GuardNoMsg(status) == ""

GuardMsg(status) == IF status = 401 THEN "Authentication required" ELSE "Insufficient permissions"

\* the chain answers: nothing but the response changes
Turned(kind, u, roles) ==
    /\ Guard(u, roles) # 0
    /\ Reply(kind, Guard(u, roles), GuardMsg(Guard(u, roles)), u._id, {})
    /\ UNCHANGED <<store, session, conn, browser, inflight, hist>>

\* ---------------------------------------------------------------- auth routes
\* bodies of POST /api/register
RegisterBodies ==
    {[name |-> p.name, email |-> p.email, password |-> p.password, role |-> p.role,
      verified |-> v] : p \in People, v \in {"true", "false", Undefined}}
    \cup {[name |-> Pat.name, email |-> Pat.email, password |-> "short",
           role |-> Pat.role, verified |-> Undefined]}

\* the body's verified field kept as parsed
autoVerifyKept(userData) == userData

\* userData.verified = userData.role === 'admin'
autoVerify(userData) == [userData EXCEPT !.verified = (userData.role = "admin")]

\* POST /api/register up to the await of createUser
Register(c, body) ==
    /\ UNCHANGED <<store, session, conn, browser, hist>>
    /\ IF ~insertUserSchemaOk(body)
       THEN /\ Reply("register", 400, "Registration failed", NoId, {})
            /\ UNCHANGED inflight
       ELSE LET userData == insertUserSchemaParse(body) IN
            IF getUserByEmail(users, userData.email) # NoId
            THEN /\ Reply("register", 400, "User already exists with this email", NoId, {})
                 /\ UNCHANGED inflight
            ELSE /\ Len(users) + NumPending("register") < MaxUsers
                 /\ Suspend([NoReq EXCEPT !.kind = "register", !.pc = "createUser",
                                          !.userData = autoVerify(userData),
                                          !.rawVerified = body.verified])
                 /\ UNCHANGED lastResp

\* POST /api/register from storage.createUser on
RegisterCreateUser(r) ==
    /\ r.kind = "register"
    /\ users' = createUser(users, r.userData)
    /\ ReplyRaw("register", 201, "User registered successfully", Len(users) + 1, {},
                r.rawVerified)
    /\ Finish(r)
    /\ UNCHANGED <<records, access, notes, session, conn, browser, hist>>

\* bodies of POST /api/login
LoginBodies ==
    {[email |-> p.email, password |-> p.password, role |-> p.role] : p \in People}
    \cup {[email |-> Pat.email, password |-> "wrongpass", role |-> Pat.role],
          [email |-> Pat.email, password |-> Pat.password, role |-> "doctor"],
          [email |-> "eve@cura.io", password |-> Pat.password, role |-> "patient"]}

\* LoginFind that tells a wrong role apart from a wrong password
LoginFindTellsRole(c, body) ==
    LET id == getUserByEmail(users, body.email) IN
    /\ UNCHANGED <<store, hist>>
    /\ IF id = NoId \/ users[id].password # body.password
       THEN /\ Reply("login", 401, "Invalid credentials", NoId, {})
            /\ UNCHANGED session
       ELSE IF users[id].role # body.role
       THEN /\ Reply("login", 401, "Invalid role", NoId, {})
            /\ UNCHANGED session
       ELSE IF ~users[id].verified
       THEN /\ Reply("login", 401, "Account pending verification", NoId, {})
            /\ UNCHANGED session
       ELSE /\ session' = [session EXCEPT ![c] = Snapshot(users, id)]
            /\ Reply("login", 200, "Login successful", id, {})

\* POST /api/login from the result of storage.getUserByEmail on
LoginFind(c, body) ==
    LET id == getUserByEmail(users, body.email) IN
    /\ UNCHANGED <<store, hist>>
    /\ IF id = NoId \/ users[id].password # body.password \/ users[id].role # body.role
       THEN /\ Reply("login", 401, "Invalid credentials", NoId, {})
            /\ UNCHANGED session
       ELSE IF ~users[id].verified
       THEN /\ Reply("login", 401, "Account pending verification", NoId, {})
            /\ UNCHANGED session
       ELSE /\ session' = [session EXCEPT ![c] = Snapshot(users, id)]
            /\ Reply("login", 200, "Login successful", id, {})

\* POST /api/login, the handle being set: connect() returns it at once
Login(c, body) ==
    /\ conn.db
    /\ LoginFind(c, body)
    /\ UNCHANGED <<inflight, conn, browser>>

\* POST /api/login, the handle not being set: connect() calls client.connect() and
\* awaits it (every storage method begins with the same await this.connect())
LoginConnect(c, body) ==
    /\ ~conn.db
    /\ conn' = [conn EXCEPT !.connects = @ + 1]
    /\ Suspend([kind |-> "login", pc |-> "connect", client |-> c, body |-> body])
    /\ UNCHANGED <<store, session, lastResp, hist, browser>>

\* client.connect() resolved: this.db = this.client.db('curacloud'), and the handler
\* goes on
LoginConnected(r) ==
    /\ r.kind = "login" /\ r.pc = "connect"
    /\ conn' = [conn EXCEPT !.db = TRUE]
    /\ LoginFind(r.client, r.body)
    /\ Finish(r)
    /\ UNCHANGED browser

\* a logout that answers 200 and leaves the session as it was
LogoutKeepsSession(c) ==
    /\ UNCHANGED session
    /\ Reply("logout", 200, "Logout successful", NoId, {})
    /\ UNCHANGED <<store, inflight, hist, conn, browser>>

\* POST /api/logout: session.destroy calls back without an error, or with one (the
\* store could not remove the session, which stays)
LogoutResponse(c) ==
    \/ /\ session' = [session EXCEPT ![c] = NoUser]
       /\ Reply("logout", 200, "Logout successful", NoId, {})
    \/ /\ UNCHANGED session
       /\ Reply("logout", 500, "Logout failed", NoId, {})

\* POST /api/logout, sent by any client but the application's logout button
Logout(c) ==
    /\ LogoutResponse(c)
    /\ UNCHANGED <<store, inflight, hist, conn, browser>>

\* GET /api/me: requireAuth, then res.json({user: req.session.user})
MeResponse(c) ==
    IF requireAuth(session[c]) # 0
    THEN Reply("me", requireAuth(session[c]), GuardMsg(requireAuth(session[c])),
               session[c]._id, {})
    ELSE ReplyRaw("me", 200, "", session[c]._id, {},
                  IF session[c].verified THEN "true" ELSE "false")

\* GET /api/me, sent by any client but the application's query
Me(c) ==
    /\ MeResponse(c)
    /\ UNCHANGED <<store, session, conn, browser, inflight, hist>>

\* ---------------------------------------------------------------- admin routes
\* GET /api/pending-verifications
PendingVerifications(c) ==
    \/ Turned("pending-verifications", session[c], {"admin"})
    \/ /\ Guard(session[c], {"admin"}) = 0
       /\ Reply("pending-verifications", 200, "", session[c]._id,
                getPendingVerifications(users))
       /\ UNCHANGED <<store, session, conn, browser, inflight, hist>>

\* POST /api/verify-user
VerifyUser(c, userId, verified) ==
    \/ Turned("verify-user", session[c], {"admin"})
    \/ /\ Guard(session[c], {"admin"}) = 0
       /\ users' = updateUserVerification(users, userId, verified)
       /\ Reply("verify-user", 200,
                IF verified THEN "User verified successfully" ELSE "User rejected successfully",
                session[c]._id, {})
       /\ UNCHANGED <<records, access, notes, session, conn, browser, inflight, hist>>

\* GET /api/users
GetUsers(c) ==
    \/ Turned("users", session[c], {"admin"})
    \/ /\ Guard(session[c], {"admin"}) = 0
       /\ Reply("users", 200, "", session[c]._id, getAllUsers(users))
       /\ UNCHANGED <<store, session, conn, browser, inflight, hist>>

\* ---------------------------------------------------------------- record routes
\* bodies of POST /api/records
RecordBodies ==
    {[patientId |-> NoId, filename |-> f, fileSize |-> 1024] : f \in {"scan.pdf", Undefined}}
    \cup {[patientId |-> 3, filename |-> "scan.pdf", fileSize |-> 1024]}

\* {patientId: id, ...req.body}: a patientId in the body wins
recordOfBodyLast(body, id) ==
    [patientId |-> IF body.patientId # NoId THEN body.patientId ELSE id,
     filename |-> body.filename, fileType |-> "application/pdf", fileSize |-> body.fileSize]

\* {...req.body, patientId: id}
recordOf(body, id) ==
    [patientId |-> id, filename |-> body.filename, fileType |-> "application/pdf",
     fileSize |-> body.fileSize]

\* POST /api/records
PostRecords(c, body) ==
    \/ Turned("post-records", session[c], {"patient"})
    \/ /\ Guard(session[c], {"patient"}) = 0
       /\ LET recordData == recordOf(body, session[c]._id) IN
          IF ~insertRecordSchemaOk(recordData)
          THEN /\ Reply("post-records", 500, "Failed to create record", session[c]._id, {})
               /\ UNCHANGED records
          ELSE /\ Len(records) < MaxRecords
               /\ records' = createRecord(records, recordData)
               /\ ReplyRaw("post-records", 200, "Record created successfully",
                           session[c]._id, {Len(records) + 1},
                           IF body.patientId # NoId THEN "patientId" ELSE "")
       /\ UNCHANGED <<users, access, notes, session, conn, browser, inflight, hist>>

\* multer fileFilter: the MIME types let through
allowedTypes == {"application/pdf", "image/jpeg", "image/png", "image/jpg"}

\* a fileFilter that lets every type through
fileFilterAny(mimetype) == TRUE

fileFilter(mimetype) == mimetype \in allowedTypes

\* multer limits.fileSize
fileSizeLimit == 10 * 1024 * 1024

\* a limit that a file of exactly limits.fileSize bytes already exceeds
exceedsFileSizeInclusive(size) == size >= fileSizeLimit

\* multer stops a file that brings more than limits.fileSize bytes
exceedsFileSize(size) == size > fileSizeLimit

\* the error handler of the application, which the errors of upload.single reach
errorHandler(message) == [status |-> 500, msg |-> message]

\* the multipart bodies of POST /api/upload: no file part, or a file
NoFile == [mimetype |-> Undefined, size |-> 0]
UploadFiles ==
    {NoFile} \cup {[mimetype |-> m, size |-> z] :
                      m \in {"application/pdf", "image/png", "text/plain"},
                      z \in {1024, fileSizeLimit, fileSizeLimit + 1}}

\* POST /api/upload: the chain, upload.single('file'), the handler
Upload(c, file) ==
    \/ Turned("upload", session[c], {"patient"})
    \/ /\ Guard(session[c], {"patient"}) = 0
       /\ IF file # NoFile /\ ~fileFilter(file.mimetype)
          THEN LET err == errorHandler(
                              "Invalid file type. Only PDF, JPG, and PNG files are allowed.")
               IN /\ Reply("upload", err.status, err.msg, session[c]._id, {})
                  /\ UNCHANGED records
          ELSE IF file # NoFile /\ exceedsFileSize(file.size)
          THEN LET err == errorHandler("File too large")
               IN /\ Reply("upload", err.status, err.msg, session[c]._id, {})
                  /\ UNCHANGED records
          ELSE IF file = NoFile
          THEN /\ Reply("upload", 400, "No file uploaded", session[c]._id, {})
               /\ UNCHANGED records
          ELSE LET recordData == [patientId |-> session[c]._id, filename |-> "scan.pdf",
                                  fileType |-> file.mimetype, fileSize |-> file.size] IN
               IF ~insertRecordSchemaOk(recordData)
               THEN /\ Reply("upload", 500, "Upload failed", session[c]._id, {})
                    /\ UNCHANGED records
               ELSE /\ Len(records) < MaxRecords
                    /\ records' = createRecord(records, recordData)
                    /\ Reply("upload", 200, "File uploaded successfully",
                             session[c]._id, {Len(records) + 1})
       /\ UNCHANGED <<users, access, notes, session, conn, browser, inflight, hist>>

\* GET /api/records
GetRecords(c) ==
    \/ Turned("get-records", session[c], Roles)
    \/ /\ Guard(session[c], Roles) = 0
       /\ IF session[c].role = "patient"
          THEN Reply("get-records", 200, "", session[c]._id,
                     getRecordsByPatient(records, session[c]._id))
          ELSE IF session[c].role = "admin"
          THEN Reply("get-records", 200, "", session[c]._id, getAllRecords(records))
          ELSE Reply("get-records", 403, "Access denied", session[c]._id, {})
       /\ UNCHANGED <<store, session, conn, browser, inflight, hist>>

\* GET /api/records/:patientId up to the await of getRecordsByPatient
GetPatientRecords(c, patientId) ==
    \/ Turned("patient-records", session[c], {"doctor"})
    \/ /\ Guard(session[c], {"doctor"}) = 0
       /\ IF ~checkAccess(access, patientId, session[c]._id)
          THEN /\ Reply("patient-records", 403, "Access denied to patient records",
                        session[c]._id, {})
               /\ UNCHANGED inflight
          ELSE /\ Suspend([NoReq EXCEPT !.kind = "patient-records",
                                        !.pc = "getRecordsByPatient",
                                        !.uid = session[c]._id, !.patientId = patientId,
                                        !.doctorId = session[c]._id])
               /\ UNCHANGED lastResp
       /\ UNCHANGED <<store, session, conn, browser, hist>>

\* GET /api/records/:patientId from storage.getRecordsByPatient on
GetPatientRecordsFetch(r) ==
    /\ r.kind = "patient-records"
    /\ Reply("patient-records", 200, "", r.uid, getRecordsByPatient(records, r.patientId))
    /\ Finish(r)
    /\ UNCHANGED <<store, session, conn, browser, hist>>

\* ---------------------------------------------------------------- access routes
\* every in-flight request has met another writer of the access collection
Disturbed(r) == [r EXCEPT !.solo = FALSE]

\* the check of the doctor without the verified flag
doctorNotFound(us, doctor) == doctor = NoId \/ us[doctor].role # "doctor"

\* !doctor || doctor.role !== 'doctor' || !doctor.verified
doctorNotFoundOrNotVerified(us, doctor) ==
    doctor = NoId \/ us[doctor].role # "doctor" \/ ~us[doctor].verified

\* POST /api/grant-access up to the await of storage.grantAccess
GrantAccess(c, doctorEmail) ==
    \/ Turned("grant-access", session[c], {"patient"})
    \/ /\ Guard(session[c], {"patient"}) = 0
       /\ UNCHANGED <<store, session, conn, browser>>
       /\ LET doctor == getUserByEmail(users, doctorEmail) IN
          IF doctorNotFoundOrNotVerified(users, doctor)
          THEN /\ Reply("grant-access", 400, "Doctor not found or not verified",
                        session[c]._id, {})
               /\ UNCHANGED <<inflight, hist>>
          ELSE LET accessData == [patientId |-> session[c]._id, doctorId |-> doctor,
                                  granted |-> TRUE]
                   alone == Pending("grant-access") = {}
                   req == [NoReq EXCEPT !.kind = "grant-access", !.pc = "deleteOne",
                                        !.uid = session[c]._id,
                                        !.patientId = accessData.patientId,
                                        !.doctorId = accessData.doctorId,
                                        !.solo = alone] IN
               IF ~insertAccessSchemaOk(accessData)
               THEN /\ Reply("grant-access", 500, "Failed to grant access",
                             session[c]._id, {})
                    /\ UNCHANGED <<inflight, hist>>
               ELSE /\ BagCardinality(inflight) < MaxInFlight
                    /\ inflight' = BagOfAll(Disturbed, inflight) (+) SetToBag({req})
                    /\ hist' = IF ~alone THEN NoHist
                               ELSE IF /\ hist.op = "grant"
                                       /\ hist.patientId = req.patientId
                                       /\ hist.doctorId = req.doctorId
                               THEN hist
                               ELSE [op |-> "grant", patientId |-> req.patientId,
                                     doctorId |-> req.doctorId, n |-> 0]
                    /\ UNCHANGED lastResp

\* storage.grantAccess: deleteOne({patientId, doctorId})
GrantAccessDelete(r) ==
    /\ r.kind = "grant-access" /\ r.pc = "deleteOne"
    /\ access' = deleteOneAccess(access, r.patientId, r.doctorId)
    /\ inflight' = (inflight (-) SetToBag({r})) (+) SetToBag({[r EXCEPT !.pc = "insertOne"]})
    /\ UNCHANGED <<users, records, notes, session, conn, browser, lastResp, hist>>

\* storage.grantAccess: insertOne({...access}), and the response
GrantAccessInsert(r) ==
    /\ r.kind = "grant-access" /\ r.pc = "insertOne"
    /\ access' = insertOneAccess(access, [patientId |-> r.patientId,
                                          doctorId |-> r.doctorId, granted |-> TRUE])
    /\ Reply("grant-access", 200, "Access granted successfully", r.uid, {})
    /\ Finish(r)
    /\ hist' = IF r.solo
               THEN [hist EXCEPT !.n = IF hist.n < 2 THEN hist.n + 1 ELSE 2]
               ELSE NoHist
    /\ UNCHANGED <<users, records, notes, session, conn, browser>>

\* POST /api/revoke-access
RevokeAccess(c, doctorId) ==
    \/ Turned("revoke-access", session[c], {"patient"})
    \/ /\ Guard(session[c], {"patient"}) = 0
       /\ access' = revokeAccess(access, session[c]._id, doctorId)
       /\ Reply("revoke-access", 200, "Access revoked successfully", session[c]._id, {})
       /\ inflight' = BagOfAll(Disturbed, inflight)
       /\ hist' = IF \E r \in Pending("grant-access") :
                         r.patientId = session[c]._id /\ r.doctorId = doctorId
                  THEN NoHist
                  ELSE [op |-> "revoke", patientId |-> session[c]._id,
                        doctorId |-> doctorId, n |-> 0]
       /\ UNCHANGED <<users, records, notes, session, conn, browser>>

\* GET /api/doctor-patients
DoctorPatients(c) ==
    \/ Turned("doctor-patients", session[c], {"doctor"})
    \/ /\ Guard(session[c], {"doctor"}) = 0
       /\ Reply("doctor-patients", 200, "", session[c]._id,
                {getUser(users, a.patientId) : a \in getDoctorAccess(access, session[c]._id)}
                    \ {NoId})
       /\ UNCHANGED <<store, session, conn, browser, inflight, hist>>

\* GET /api/patient-access
PatientAccess(c) ==
    \/ Turned("patient-access", session[c], {"patient"})
    \/ /\ Guard(session[c], {"patient"}) = 0
       /\ Reply("patient-access", 200, "", session[c]._id,
                {getUser(users, a.doctorId) : a \in getPatientAccess(access, session[c]._id)}
                    \ {NoId})
       /\ UNCHANGED <<store, session, conn, browser, inflight, hist>>

\* ---------------------------------------------------------------- note routes
\* bodies of POST /api/notes
NoteBodies ==
    {[doctorId |-> NoId, patientId |-> p, consultationType |-> "visit", content |-> t] :
        p \in UserIds, t \in {"text", Undefined}}
    \cup {[doctorId |-> 1, patientId |-> 2, consultationType |-> "visit",
           content |-> "text"]}

\* {...req.body, doctorId: id}
noteOf(body, id) ==
    [doctorId |-> id, patientId |-> body.patientId,
     consultationType |-> body.consultationType, content |-> body.content]

\* POST /api/notes up to the await of createNote
PostNotes(c, body) ==
    \/ Turned("post-notes", session[c], {"doctor"})
    \/ /\ Guard(session[c], {"doctor"}) = 0
       /\ UNCHANGED <<store, session, conn, browser, hist>>
       /\ LET noteData == noteOf(body, session[c]._id) IN
          IF ~insertNoteSchemaOk(noteData)
          THEN /\ Reply("post-notes", 500, "Failed to add note", session[c]._id, {})
               /\ UNCHANGED inflight
          ELSE IF ~checkAccess(access, noteData.patientId, session[c]._id)
          THEN /\ Reply("post-notes", 403, "Access denied to patient records",
                        session[c]._id, {})
               /\ UNCHANGED inflight
          ELSE /\ Len(notes) + NumPending("post-notes") < MaxNotes
               /\ Suspend([NoReq EXCEPT !.kind = "post-notes", !.pc = "createNote",
                                        !.uid = session[c]._id,
                                        !.patientId = noteData.patientId,
                                        !.doctorId = noteData.doctorId])
               /\ UNCHANGED lastResp

\* POST /api/notes from storage.createNote on
PostNotesCreate(r) ==
    /\ r.kind = "post-notes"
    /\ notes' = createNote(notes, [doctorId |-> r.doctorId, patientId |-> r.patientId])
    /\ Reply("post-notes", 200, "Note added successfully", r.uid, {})
    /\ Finish(r)
    /\ UNCHANGED <<users, records, access, session, conn, browser, hist>>

\* ---------------------------------------------------------------- specifications
Fresh ==
    /\ session = [c \in Clients |-> NoUser]
    /\ inflight = EmptyBag
    /\ lastResp = NoResp
    /\ hist = NoHist
    /\ conn = Connected
    /\ browser = NoPage

\* the server started on an empty database
Init ==
    /\ users = <<>> /\ records = <<>> /\ access = EmptyBag /\ notes = <<>>
    /\ Fresh

\* one browser registers, logs in and verifies
AuthClients == {"c1"}

NextAuth ==
    \/ \E c \in AuthClients, body \in RegisterBodies : Register(c, body)
    \/ \E r \in BagToSet(inflight) : RegisterCreateUser(r)
    \/ \E c \in AuthClients, body \in LoginBodies : Login(c, body)
    \/ \E c \in AuthClients : Logout(c)
    \/ \E c \in AuthClients, id \in UserIds, v \in BOOLEAN : VerifyUser(c, id, v)

\* registration, login and verification from an empty database
SpecAuth == Init /\ [][NextAuth]_vars

Stored(p, v) ==
    [name |-> p.name, email |-> p.email, password |-> p.password, role |-> p.role,
     verified |-> v]

Credentials(p) == [email |-> p.email, password |-> p.password, role |-> p.role]

\* a database in which Ada, Pat and Dan are registered, Ada and Pat are verified and
\* Pat has uploaded one record
InitAccess ==
    /\ \E v \in BOOLEAN :
          users = << Stored(Ada, TRUE), Stored(Pat, TRUE), Stored(Dan, v) >>
    /\ records = << [patientId |-> 2, filename |-> "scan.pdf",
                     fileType |-> "application/pdf", fileSize |-> 1024] >>
    /\ access = EmptyBag /\ notes = <<>>
    /\ Fresh

\* c1 is Pat's browser, c2 is Dan's
NextAccess ==
    \/ Login("c1", Credentials(Pat))
    \/ Login("c2", Credentials(Dan))
    \/ \E c \in Clients : Logout(c)
    \/ \E c \in Clients, e \in Emails : GrantAccess(c, e)
    \/ \E r \in BagToSet(inflight) : GrantAccessDelete(r)
    \/ \E r \in BagToSet(inflight) : GrantAccessInsert(r)
    \/ \E c \in Clients, d \in UserIds : RevokeAccess(c, d)
    \/ \E c \in Clients, p \in UserIds : GetPatientRecords(c, p)
    \/ \E r \in BagToSet(inflight) : GetPatientRecordsFetch(r)
    \/ \E c \in Clients, body \in NoteBodies : PostNotes(c, body)
    \/ \E r \in BagToSet(inflight) : PostNotesCreate(r)

\* grants, revokes, record reads and notes over registered users
SpecAccess == InitAccess /\ [][NextAccess]_vars

\* Pat grants one request at a time and revokes at any time
NextRace ==
    \/ Login("c1", Credentials(Pat))
    \/ Login("c2", Credentials(Dan))
    \/ \E c \in Clients : Logout(c)
    \/ \E c \in Clients : Pending("grant-access") = {} /\ GrantAccess(c, Dan.email)
    \/ \E r \in BagToSet(inflight) : GrantAccessDelete(r)
    \/ \E r \in BagToSet(inflight) : GrantAccessInsert(r)
    \/ \E c \in Clients : RevokeAccess(c, 3)
    \/ \E c \in Clients : GetPatientRecords(c, 2)
    \/ \E r \in BagToSet(inflight) : GetPatientRecordsFetch(r)

\* one grant-access at a time, against revoke-access requests
SpecRace == InitAccess /\ [][NextRace]_vars

\* a database in which Ada, Pat and Dan are registered and verified
InitRoutes ==
    /\ users = << Stored(Ada, TRUE), Stored(Pat, TRUE), Stored(Dan, TRUE) >>
    /\ records = <<>> /\ access = EmptyBag /\ notes = <<>>
    /\ Fresh

\* the uploads sent to the routes: no file, a small one and an oversized one, of an
\* allowed and of a disallowed type
RouteFiles ==
    {f \in UploadFiles : f.mimetype # "image/png" /\ f.size # fileSizeLimit}

\* the register requests sent to the routes: Pat's, with a password long enough and
\* with one too short
RouteRegisterBodies ==
    {b \in RegisterBodies : b.email = Pat.email /\ b.verified = Undefined}

\* the requests to every route, from one browser that logs in as each user in
\* turn; the ids sent are Pat's (2) as patient and Dan's (3) as doctor or user to
\* verify; every email a register request can carry is taken
RouteArrivals ==
    \/ \E c \in AuthClients, body \in RouteRegisterBodies : Register(c, body)
    \/ \E c \in AuthClients, p \in People : Login(c, Credentials(p))
    \/ \E c \in AuthClients : Logout(c)
    \/ \E c \in AuthClients : Me(c)
    \/ \E c \in AuthClients, body \in RecordBodies : PostRecords(c, body)
    \/ \E c \in AuthClients, file \in RouteFiles : Upload(c, file)
    \/ \E c \in AuthClients, e \in Emails : GrantAccess(c, e)
    \/ \E c \in AuthClients : RevokeAccess(c, 3)
    \/ \E c \in AuthClients : GetRecords(c)
    \/ \E c \in AuthClients : GetPatientRecords(c, 2)
    \/ \E c \in AuthClients, body \in {b \in NoteBodies : b.patientId = 2} :
          PostNotes(c, body)
    \/ \E c \in AuthClients : PendingVerifications(c)
    \/ \E c \in AuthClients, v \in BOOLEAN : VerifyUser(c, 3, v)
    \/ \E c \in AuthClients : GetUsers(c)
    \/ \E c \in AuthClients : DoctorPatients(c)
    \/ \E c \in AuthClients : PatientAccess(c)

\* the browser sends a request once the one before is answered
NextRoutes ==
    \/ inflight = EmptyBag /\ RouteArrivals
    \/ \E r \in BagToSet(inflight) : GrantAccessDelete(r)
    \/ \E r \in BagToSet(inflight) : GrantAccessInsert(r)
    \/ \E r \in BagToSet(inflight) : GetPatientRecordsFetch(r)
    \/ \E r \in BagToSet(inflight) : PostNotesCreate(r)

\* the guarded routes over registered users
SpecRoutes == InitRoutes /\ [][NextRoutes]_vars

\* a database in which Ada, Pat, Dan and a second patient, Pam, are registered and
\* verified
InitRecords ==
    /\ users = << Stored(Ada, TRUE), Stored(Pat, TRUE), Stored(Dan, TRUE),
                  Stored(Pam, TRUE) >>
    /\ records = <<>> /\ access = EmptyBag /\ notes = <<>>
    /\ Fresh

\* one browser logs in as each user in turn, creates records and lists them
NextRecords ==
    \/ \E c \in AuthClients, p \in People \cup {Pam} : Login(c, Credentials(p))
    \/ \E c \in AuthClients : Logout(c)
    \/ \E c \in AuthClients, body \in RecordBodies : PostRecords(c, body)
    \/ \E c \in AuthClients, file \in UploadFiles : Upload(c, file)
    \/ \E c \in AuthClients : GetRecords(c)

\* the records of two patients
SpecRecords == InitRecords /\ [][NextRecords]_vars

\* an address no user registered
NoSuchEmail == "eve@cura.io"

\* c1 is the browser of a patient, Pat or Pam; c2 is Ada's, who verifies and
\* rejects the doctor meanwhile
NextGrant ==
    \/ \E p \in {Pat, Pam} : Login("c1", Credentials(p))
    \/ Login("c2", Credentials(Ada))
    \/ Logout("c1")
    \/ \E c \in Clients, e \in Emails \cup {NoSuchEmail} : GrantAccess(c, e)
    \/ \E r \in BagToSet(inflight) : GrantAccessDelete(r)
    \/ \E r \in BagToSet(inflight) : GrantAccessInsert(r)
    \/ \E c \in Clients : RevokeAccess(c, 3)
    \/ \E v \in BOOLEAN : VerifyUser("c2", 3, v)

\* grants and revokes of two patients while the doctor's verified flag changes
SpecGrant == InitRecords /\ [][NextGrant]_vars

\* Ada, Pat and Dan have just registered: the admin is verified, the others wait
InitAdmin ==
    /\ users = << Stored(Ada, TRUE), Stored(Pat, FALSE), Stored(Dan, FALSE) >>
    /\ records = <<>> /\ access = EmptyBag /\ notes = <<>>
    /\ Fresh

\* c1 is Ada's browser, c2 is Pat's; the admin verifies and rejects any user, the
\* admin account included, and both browsers ask for the pending list
NextAdmin ==
    \/ Login("c1", Credentials(Ada))
    \/ Login("c2", Credentials(Pat))
    \/ \E c \in Clients : Logout(c)
    \/ \E c \in Clients, id \in UserIds, v \in BOOLEAN : VerifyUser(c, id, v)
    \/ \E c \in Clients : PendingVerifications(c)

\* the admin's verification queue
SpecAdmin == InitAdmin /\ [][NextAdmin]_vars

\* ---------------------------------------------------------------- client
NoRole == ""                     \* requiredRole is not given
NoLocation == ""                 \* no effect calls setLocation

\* the paths the browser is sent to: the auth page and each dashboard, without and
\* with a section
Locations ==
    {"/", "/dashboard", "/dashboard/overview", "/doctor", "/doctor/overview",
     "/admin", "/admin/overview"}

\* Router: the requiredRole of the ProtectedRoute the path's Route mounts, NoRole
\* for the auth page, which is not behind a ProtectedRoute
requiredRoleAt(location) ==
    CASE location \in {"/dashboard", "/dashboard/overview"} -> "patient"
      [] location \in {"/doctor", "/doctor/overview"} -> "doctor"
      [] location \in {"/admin", "/admin/overview"} -> "admin"
      [] OTHER -> NoRole

\* a redirectPath that is the patient dashboard for every role
redirectPathPatient(role) == "/dashboard/overview"

\* ProtectedRoute: the dashboard of the user's own role
redirectPath(role) ==
    IF role = "doctor" THEN "/doctor/overview"
    ELSE IF role = "admin" THEN "/admin/overview"
    ELSE "/dashboard/overview"

\* ProtectedRoute: what it renders, and the path its effects pass to setLocation
ProtectedRoute(isLoading, user, requiredRole) ==
    [render |->
        IF isLoading THEN "spinner"
        ELSE IF user = NoUser THEN "null"
        ELSE IF requiredRole # NoRole /\ user.role # requiredRole THEN "null"
        ELSE "children",
     setLocation |->
        IF ~isLoading /\ user = NoUser THEN "/"
        ELSE IF user # NoUser /\ requiredRole # NoRole /\ user.role # requiredRole
        THEN redirectPath(user.role)
        ELSE NoLocation]

\* useQuery: isLoading is true while the first fetch of the query is under way
isLoading(b) == b.status = "loading"

\* the ProtectedRoute mounted at the browser's location
Mounted(b) == ProtectedRoute(isLoading(b), b.user, requiredRoleAt(b.location))

\* the page is loaded at a path: the application starts with an empty query cache and
\* the Header's /api/me query begins its first fetch
OpenApp(path) ==
    /\ browser' = [location |-> path, status |-> "loading", user |-> NoUser,
                   via |-> "open"]
    /\ UNCHANGED <<store, session, inflight, lastResp, hist, conn>>

\* a link or the back button changes the path
Navigate(path) ==
    /\ browser.status # "closed"
    /\ browser.location # path
    /\ browser' = [browser EXCEPT !.location = path, !.via = "link"]
    /\ UNCHANGED <<store, session, inflight, lastResp, hist, conn>>

\* getCurrentUser: GET /api/me is answered and the query settles with the user of the
\* response, or with null when the request failed
getCurrentUser(c) ==
    /\ browser.status \in {"loading", "refetching"}
    /\ MeResponse(c)
    /\ browser' = [browser EXCEPT
                     !.status = "success",
                     !.user = IF lastResp'.status = 200 THEN session[c] ELSE NoUser]
    /\ UNCHANGED <<store, session, inflight, hist, conn>>

\* the auth page after a successful login: /doctor, /admin or /dashboard
loginRedirectPath(role) ==
    IF role = "doctor" THEN "/doctor" ELSE IF role = "admin" THEN "/admin" ELSE "/dashboard"

\* loginMutation of the auth page: POST /api/login, and on success the /api/me query
\* is invalidated (it keeps its data while it fetches again) and the path is set
loginMutation(c, body) ==
    /\ browser.status # "closed" /\ browser.location = "/"
    /\ conn.db
    /\ LoginFind(c, body)
    /\ browser' = IF lastResp'.status = 200
                  THEN [browser EXCEPT
                          !.location = loginRedirectPath(session'[c].role),
                          !.status = IF @ = "success" THEN "refetching" ELSE @,
                          !.via = "login"]
                  ELSE browser
    /\ UNCHANGED <<inflight, conn>>

\* logoutMutation of the Header, which shows only with a user: POST /api/logout, and
\* on success the query cache is cleared and the path is set to the auth page
logoutMutation(c) ==
    /\ browser.status # "closed" /\ browser.user # NoUser
    /\ LogoutResponse(c)
    /\ browser' = IF lastResp'.status = 200
                  THEN [location |-> "/", status |-> "loading", user |-> NoUser,
                        via |-> "logout"]
                  ELSE browser
    /\ UNCHANGED <<store, inflight, hist, conn>>

\* the effects of the mounted ProtectedRoute run and one of them calls setLocation
useEffect ==
    /\ browser.status # "closed" /\ browser.location # "/"
    /\ Mounted(browser).setLocation # NoLocation
    /\ browser' = [browser EXCEPT !.location = Mounted(browser).setLocation,
                                  !.via = "effect"]
    /\ UNCHANGED <<store, session, inflight, lastResp, hist, conn>>

\* the application in the browser c1, its users registered and verified
NextClient ==
    \/ \E path \in Locations : OpenApp(path)
    \/ \E path \in Locations : Navigate(path)
    \/ getCurrentUser("c1")
    \/ \E body \in LoginBodies : loginMutation("c1", body)
    \/ logoutMutation("c1")
    \/ useEffect

\* the client's routes and its /api/me query against the server's session
SpecClient == InitRoutes /\ [][NextClient]_vars

\* c1 is Ada's browser, c2 is Pat's or Dan's
NextSession ==
    \/ Login("c1", Credentials(Ada))
    \/ \E p \in {Pat, Dan} : Login("c2", Credentials(p))
    \/ \E c \in Clients : Logout(c)
    \/ \E id \in {2, 3}, v \in BOOLEAN : VerifyUser("c1", id, v)
    \/ \E c \in Clients : Me(c)
    \/ \E c \in Clients : DoctorPatients(c)
    \/ \E c \in Clients : PatientAccess(c)

\* sessions of users whose verified flag an admin changes meanwhile
SpecSession == InitRoutes /\ [][NextSession]_vars

\* the process has just started: no request has reached the store yet
InitConnect ==
    /\ users = << Stored(Ada, TRUE), Stored(Pat, TRUE), Stored(Dan, FALSE) >>
    /\ records = <<>> /\ access = EmptyBag /\ notes = <<>>
    /\ session = [c \in Clients |-> NoUser]
    /\ inflight = EmptyBag /\ lastResp = NoResp /\ hist = NoHist
    /\ conn = NotConnected
    /\ browser = NoPage

NextConnect ==
    \/ \E c \in Clients, body \in LoginBodies : LoginConnect(c, body)
    \/ \E r \in BagToSet(inflight) : LoginConnected(r)
    \/ \E c \in Clients, body \in LoginBodies : Login(c, body)
    \/ \E c \in Clients : Logout(c)

\* the first requests of a process: logins that find the store not yet connected
SpecConnect == InitConnect /\ [][NextConnect]_vars

\* ---------------------------------------------------------------- claims
\* the number of access documents with patientId = p, doctorId = d, granted = true
ActiveRows(p, d) ==
    BagCardinality([r \in {x \in BagToSet(access) :
                             x.patientId = p /\ x.doctorId = d /\ x.granted = TRUE}
                    |-> access[r]])

\* C1: once two grant-access requests by a patient for a verified doctor have run one
\* after the other, the second having completed, the access collection holds exactly
\* one row with granted = true for the pair.
C1_TwoGrantsOneRow ==
    (hist.op = "grant" /\ hist.n = 2 /\ Pending("grant-access") = {})
        => ActiveRows(hist.patientId, hist.doctorId) = 1

\* C2: in every reachable state the access collection holds at most one row with
\* granted = true for each (patientId, doctorId) pair.
C2_AtMostOneActiveRow ==
    \A p \in UserIds, d \in UserIds : ActiveRows(p, d) <= 1

\* C3: when a doctor session has no granted row for patient p at the time of the
\* check, GET /api/records/p answers 403 with no records, and POST /api/notes for p
\* answers 403 and no note is inserted.
C3_NoGrantNoAccess ==
    [][\A c \in Clients, p \in UserIds :
         (session[c].role = "doctor" /\ ActiveRows(p, session[c]._id) = 0) =>
            /\ GetPatientRecords(c, p) =>
                  /\ lastResp'.kind = "patient-records" /\ lastResp'.status = 403
                  /\ lastResp'.records = {}
                  /\ inflight' = inflight
            /\ \A body \in NoteBodies :
                  (body.patientId = p /\ body.content # Undefined /\ PostNotes(c, body)) =>
                     /\ lastResp'.kind = "post-notes" /\ lastResp'.status = 403
                     /\ notes' = notes
                     /\ inflight' = inflight
      ]_vars

\* C3 witness: Dan, with no grant from Pat, asked for Pat's records, which exist, and
\* was answered 403 with none of them.
C3_Witness ==
    /\ lastResp.kind = "patient-records" /\ lastResp.status = 403
    /\ lastResp.msg = "Access denied to patient records"
    /\ lastResp.records = {}
    /\ lastResp.uid = 3 /\ users[3].role = "doctor"
    /\ ActiveRows(2, 3) = 0
    /\ getRecordsByPatient(records, 2) # {}

\* C4: a login with the exact email, password and role of a stored patient or doctor
\* whose verified flag is false answers 401 and creates no session.
C4_UnverifiedCannotLogin ==
    [][\A c \in Clients, i \in UserIds :
         ( /\ i \in DOMAIN users
           /\ users[i].role \in {"patient", "doctor"}
           /\ users[i].verified = FALSE
           /\ Login(c, [email |-> users[i].email, password |-> users[i].password,
                        role |-> users[i].role]) ) =>
            /\ lastResp'.status = 401
            /\ session' = session
      ]_vars

\* C5: once a revoke-access by p for d has completed, the next GET /api/records/p by
\* d answers 403.
C5_RevokedThenDenied ==
    [][\A c \in Clients, p \in UserIds :
         ( /\ session[c].role = "doctor"
           /\ hist.op = "revoke" /\ hist.patientId = p /\ hist.doctorId = session[c]._id
           /\ GetPatientRecords(c, p) ) =>
            /\ lastResp'.kind = "patient-records" /\ lastResp'.status = 403
            /\ inflight' = inflight
      ]_vars

\* C6: a note is inserted only while a row with granted = true exists for its
\* (patientId, doctorId).
C6_NoteOnlyUnderGrant ==
    [][Len(notes') > Len(notes) =>
         ActiveRows(notes'[Len(notes')].patientId, notes'[Len(notes')].doctorId) > 0
      ]_vars

\* C7: no two documents of the users collection have the same email.
C7_EmailUnique ==
    \A i \in DOMAIN users, j \in DOMAIN users :
        i # j => users[i].email # users[j].email

\* C8: a register request whose email belongs to a stored user answers 400 and leaves
\* the users collection unchanged.
C8_DuplicateEmailRejected ==
    [][\A c \in AuthClients, body \in RegisterBodies :
         ((\E i \in DOMAIN users : users[i].email = body.email) /\ Register(c, body)) =>
            /\ lastResp'.kind = "register" /\ lastResp'.status = 400
            /\ users' = users
            /\ inflight' = inflight
      ]_vars

\* C8 witness: a valid body with a stored user's email was answered 400.
C8_Witness ==
    /\ lastResp.kind = "register" /\ lastResp.status = 400
    /\ lastResp.msg = "User already exists with this email"
    /\ Len(users) = 1

\* C9: the user a register request stores has verified = (role = admin), whatever
\* the verified field of the body said.
C9_VerifiedIffAdmin ==
    [][Len(users') > Len(users) =>
         /\ Len(users') = Len(users) + 1
         /\ users'[Len(users')].verified = (users'[Len(users')].role = "admin")
         /\ lastResp'.kind = "register" /\ lastResp'.status = 201
         /\ lastResp'.raw \in {"true", "false", Undefined}
      ]_vars

\* C9 witness: a body with role patient and verified = true was accepted and the
\* user it stored is unverified.
C9_Witness ==
    /\ lastResp.kind = "register" /\ lastResp.status = 201 /\ lastResp.raw = "true"
    /\ lastResp.uid \in DOMAIN users
    /\ users[lastResp.uid].role = "patient"
    /\ users[lastResp.uid].verified = FALSE

\* the routes behind requireAuth, and the roles each lets through
GuardedRoutes ==
    {"me", "post-records", "upload", "grant-access", "revoke-access", "get-records",
     "patient-records", "post-notes", "pending-verifications", "verify-user", "users",
     "doctor-patients", "patient-access"}

RoleGatedRoutes == GuardedRoutes \ {"me"}

AllowedRoles(k) ==
    CASE k \in {"post-records", "upload", "grant-access", "revoke-access", "patient-access"}
            -> {"patient"}
      [] k \in {"patient-records", "post-notes", "doctor-patients"} -> {"doctor"}
      [] k \in {"pending-verifications", "verify-user", "users"} -> {"admin"}
      [] k = "get-records" -> {"patient", "admin"}
      [] OTHER -> Roles

\* the request is answered with the status, lists nothing, writes nothing and leaves
\* nothing in flight
TurnedAway(status) ==
    /\ lastResp'.status = status /\ lastResp'.records = {}
    /\ UNCHANGED <<users, records, access, notes, session, inflight>>

\* C10: a request without a session user to a route behind requireAuth is answered
\* 401, and a request whose session role is outside the route's roles is answered
\* 403; neither performs a store operation.  (lastResp.uid is the id of the session
\* user the answered request carried, 0 for none.)
C10_GuardsTurnAway ==
    [][(lastResp' # lastResp /\ lastResp'.kind \in GuardedRoutes) =>
         /\ lastResp'.uid = NoId => TurnedAway(401)
         /\ ( /\ lastResp'.uid # NoId
              /\ lastResp'.kind \in RoleGatedRoutes
              /\ users[lastResp'.uid].role \notin AllowedRoles(lastResp'.kind) )
            => TurnedAway(403)
      ]_vars

\* C10 witness: Pat, a patient, asked to verify a user and was answered 403; Dan's
\* verified flag was left as it was.
C10_Witness ==
    /\ lastResp.kind = "verify-user" /\ lastResp.status = 403
    /\ lastResp.msg = "Insufficient permissions"
    /\ lastResp.uid = 2 /\ users[2].role = "patient"
    /\ users[3].verified = TRUE

\* C18: MongoClient.connect() is invoked at most once in the life of the process,
\* however the requests interleave.
C18_ConnectOnce == conn.connects <= 1

\* C11: while the session of a user whose stored verified flag is now false lasts,
\* GET /api/me answers 200 with verified = true, the routes of the user's role still
\* answer 200, and the snapshot is only ever dropped (logout) or replaced by another
\* user's, never refreshed from the store.
C11_SessionKeepsSnapshot ==
    [][\A c \in Clients :
         (session[c] # NoUser /\ ~users[session[c]._id].verified) =>
            /\ session[c].verified
            /\ Me(c) => /\ lastResp'.status = 200 /\ lastResp'.raw = "true"
                        /\ lastResp'.uid = session[c]._id
            /\ (session[c].role = "doctor" /\ DoctorPatients(c)) => lastResp'.status = 200
            /\ (session[c].role = "patient" /\ PatientAccess(c)) => lastResp'.status = 200
            /\ session'[c] # session[c] =>
                  session'[c] = NoUser \/ session'[c]._id # session[c]._id
      ]_vars

\* C11 witness: Dan's session, created while he was verified, asked GET /api/me after
\* an admin had set his verified flag to false, and was told verified = true.
C11_Witness ==
    /\ lastResp.kind = "me" /\ lastResp.status = 200 /\ lastResp.raw = "true"
    /\ lastResp.uid = 3 /\ session["c2"]._id = 3
    /\ users[3].verified = FALSE

\* the one response of a refused login
InvalidCredentials ==
    [NoResp EXCEPT !.kind = "login", !.status = 401, !.msg = "Invalid credentials"]

\* C12: a login with a stored user's email and a wrong password, one with the right
\* email and password and a wrong role, and one with an email nobody registered are
\* all answered with the same response, 401 "Invalid credentials", and none of them
\* changes the session.
C12_LoginFailuresAlike ==
    [][\A c \in AuthClients, body \in LoginBodies :
         LET id == getUserByEmail(users, body.email)
             unknown == id = NoId
             wrongPassword == id # NoId /\ users[id].password # body.password
             wrongRole == /\ id # NoId /\ users[id].password = body.password
                          /\ users[id].role # body.role
         IN ((unknown \/ wrongPassword \/ wrongRole) /\ Login(c, body)) =>
               /\ lastResp' = InvalidCredentials
               /\ session' = session
      ]_vars

\* C12 witness: with Pat registered and verified, a login was refused with 401
\* "Invalid credentials" and the browser has no session.
C12_Witness ==
    /\ lastResp = InvalidCredentials
    /\ \E i \in DOMAIN users : users[i].email = Pat.email /\ users[i].verified
    /\ session["c1"] = NoUser

\* C13: a body that violates the insert schema is answered 400 by POST /api/register,
\* by POST /api/records and by POST /api/notes, and nothing is written or left in
\* flight.
C13_InvalidBody400 ==
    [][/\ \A c \in AuthClients, body \in RouteRegisterBodies :
            (~insertUserSchemaOk(body) /\ Register(c, body)) =>
               lastResp'.status = 400 /\ UNCHANGED <<store, inflight>>
       /\ \A c \in AuthClients, body \in RecordBodies :
            ( /\ Guard(session[c], {"patient"}) = 0
              /\ ~insertRecordSchemaOk(recordOf(body, session[c]._id))
              /\ PostRecords(c, body) ) =>
               lastResp'.status = 400 /\ UNCHANGED <<store, inflight>>
       /\ \A c \in AuthClients, body \in NoteBodies :
            ( /\ Guard(session[c], {"doctor"}) = 0
              /\ ~insertNoteSchemaOk(noteOf(body, session[c]._id))
              /\ PostNotes(c, body) ) =>
               lastResp'.status = 400 /\ UNCHANGED <<store, inflight>>
      ]_vars

\* C14: an upload whose file has a MIME type other than application/pdf, image/jpeg,
\* image/png and image/jpg is refused and no record is inserted.
C14_DisallowedTypeNoRecord ==
    [][\A c \in AuthClients, file \in UploadFiles :
         ( /\ file # NoFile
           /\ file.mimetype \notin {"application/pdf", "image/jpeg", "image/png", "image/jpg"}
           /\ Upload(c, file) ) =>
            /\ records' = records
            /\ lastResp'.status # 200 /\ lastResp'.records = {}
      ]_vars

\* C14 witness: a patient's upload was refused for its type and the records
\* collection is empty.
C14_Witness ==
    /\ lastResp.kind = "upload"
    /\ lastResp.msg = "Invalid file type. Only PDF, JPG, and PNG files are allowed."
    /\ lastResp.uid \in DOMAIN users /\ users[lastResp.uid].role = "patient"
    /\ records = <<>>

\* C16: GET /api/records answers a patient session with exactly the records whose
\* patientId is the session user's id, an admin session with all records, and a
\* doctor session with 403 and no records.
C16_RecordsByRole ==
    [][\A c \in AuthClients :
         (session[c] # NoUser /\ GetRecords(c)) =>
            /\ session[c].role = "patient" =>
                  /\ lastResp'.status = 200
                  /\ lastResp'.records =
                        {i \in DOMAIN records : records[i].patientId = session[c]._id}
            /\ session[c].role = "admin" =>
                  lastResp'.status = 200 /\ lastResp'.records = DOMAIN records
            /\ session[c].role = "doctor" =>
                  lastResp'.status = 403 /\ lastResp'.records = {}
      ]_vars

\* C16 witness: a patient listed the records and got none, while the collection
\* holds the record of another patient.
C16_Witness ==
    /\ lastResp.kind = "get-records" /\ lastResp.status = 200 /\ lastResp.records = {}
    /\ lastResp.uid \in DOMAIN users /\ users[lastResp.uid].role = "patient"
    /\ \E i \in DOMAIN records : records[i].patientId # lastResp.uid

C15_OwnerFromSession ==
    [][/\ Len(records') > Len(records) =>
            /\ Len(records') = Len(records) + 1
            /\ lastResp'.kind \in {"post-records", "upload"}
            /\ records'[Len(records')].patientId = lastResp'.uid
            /\ users[lastResp'.uid].role = "patient"
       /\ Len(notes') > Len(notes) =>
            /\ Len(notes') = Len(notes) + 1
            /\ lastResp'.kind = "post-notes"
            /\ notes'[Len(notes')].doctorId = lastResp'.uid
            /\ users[lastResp'.uid].role = "doctor"
      ]_vars

\* C15 witness: Pat posted a record whose body named Dan (3) as patientId, and the
\* record stored is Pat's (2).
C15_Witness ==
    /\ lastResp.kind = "post-records" /\ lastResp.status = 200
    /\ lastResp.raw = "patientId" /\ lastResp.uid = 2
    /\ records # <<>> /\ records[Len(records)].patientId = 2

\* C17: no step removes or changes a record or a note, removes a user or changes a
\* user's name, email, password or role; a user's verified flag changes only in a
\* POST /api/verify-user of an admin session answered 200.
C17_OnlyVerifiedChanges ==
    [][/\ Len(records') >= Len(records)
       /\ SubSeq(records', 1, Len(records)) = records
       /\ Len(notes') >= Len(notes)
       /\ SubSeq(notes', 1, Len(notes)) = notes
       /\ Len(users') >= Len(users)
       /\ \A i \in DOMAIN users :
            /\ users'[i] = [users[i] EXCEPT !.verified = users'[i].verified]
            /\ users'[i].verified # users[i].verified =>
                  /\ lastResp'.kind = "verify-user" /\ lastResp'.status = 200
                  /\ users[lastResp'.uid].role = "admin"
      ]_vars

\* C17 witness: an admin has set Dan's verified flag to false; Dan's document is
\* otherwise as registered, and a record is in the collection.
C17_Witness ==
    /\ lastResp.kind = "verify-user" /\ lastResp.status = 200
    /\ users[3] = Stored(Dan, FALSE)
    /\ records # <<>>

C21_CheckAccessIsPresence ==
    [][/\ \A p \in UserIds, d \in UserIds :
            checkAccess(access, p, d) <=> ActiveRows(p, d) >= 1
       /\ \A r \in BagToSet(inflight') :
            (r.kind = "patient-records" /\ CopiesIn(r, inflight') > CopiesIn(r, inflight)) =>
               UNCHANGED store /\ ActiveRows(r.patientId, r.uid) >= 1
       /\ ( /\ lastResp' # lastResp
            /\ lastResp'.kind = "patient-records"
            /\ lastResp'.status = 403 ) => UNCHANGED store
      ]_vars

\* C21 witness: with a granted row from Pat to Dan in the collection, Dan's request
\* for Pat's records passed the check and was answered with the record.
C21_Witness ==
    /\ lastResp.kind = "patient-records" /\ lastResp.status = 200
    /\ lastResp.uid = 3 /\ lastResp.records # {}
    /\ ActiveRows(2, 3) = 1

\* the access collection after the three store operations of a grant and a revoke
\* for (p, d), in each of their orders
GrantedRow(p, d) == [patientId |-> p, doctorId |-> d, granted |-> TRUE]

GrantThenRevoke(acc, p, d) ==
    revokeAccess(insertOneAccess(deleteOneAccess(acc, p, d), GrantedRow(p, d)), p, d)

RevokeThenGrant(acc, p, d) ==
    insertOneAccess(deleteOneAccess(revokeAccess(acc, p, d), p, d), GrantedRow(p, d))

RevokeBetween(acc, p, d) ==
    insertOneAccess(revokeAccess(deleteOneAccess(acc, p, d), p, d), GrantedRow(p, d))

Interleavings(acc, p, d) ==
    {GrantThenRevoke(acc, p, d), RevokeThenGrant(acc, p, d), RevokeBetween(acc, p, d)}

\* C22 as stated: from a state with at most one row for a pair, some order of the
\* grant's delete and insert and the revoke's delete ends with rows that neither
\* grant-then-revoke nor revoke-then-grant ends with.
C22_GrantRevokeRace ==
    \A p \in UserIds, d \in UserIds :
        ActiveRows(p, d) <= 1 =>
            \E final \in Interleavings(access, p, d) :
                /\ final # GrantThenRevoke(access, p, d)
                /\ final # RevokeThenGrant(access, p, d)

\* C22 as amended: from a state with at most one row for a pair, every order of the
\* three operations ends with the rows of one of the two serial orders; and when
\* grants do not overlap one another, whatever revokes come between their steps, the
\* pair has at most one row, one row once a grant was the last to complete and none
\* once a revoke was.
C22_GrantRevokeSerial ==
    /\ \A p \in UserIds, d \in UserIds :
          ActiveRows(p, d) <= 1 =>
             \A final \in Interleavings(access, p, d) :
                 \/ final = GrantThenRevoke(access, p, d)
                 \/ final = RevokeThenGrant(access, p, d)
    /\ ActiveRows(2, 3) <= 1
    /\ (Pending("grant-access") = {} /\ lastResp.status = 200) =>
          /\ lastResp.kind = "grant-access" => ActiveRows(2, 3) = 1
          /\ lastResp.kind = "revoke-access" => ActiveRows(2, 3) = 0

\* C22 witness: a grant that a revoke came across while it was in flight has
\* completed, and the pair has one row, as after revoke-then-grant.
C22_Witness ==
    /\ lastResp.kind = "grant-access" /\ lastResp.status = 200
    /\ Pending("grant-access") = {}
    /\ hist = NoHist
    /\ ActiveRows(2, 3) = 1

\* C23: a login with the exact email, password and role of a stored patient or
\* doctor whose verified flag is true answers 200 and creates the session of that
\* user, and GET /api/me with a session answers 200 with the session user's id.
C23_VerifiedCanLogin ==
    [][/\ \A c \in AuthClients, i \in UserIds :
            ( /\ i \in DOMAIN users
              /\ users[i].role \in {"patient", "doctor"}
              /\ users[i].verified
              /\ Login(c, [email |-> users[i].email, password |-> users[i].password,
                           role |-> users[i].role]) ) =>
               /\ lastResp'.status = 200 /\ lastResp'.uid = i
               /\ session'[c] = Snapshot(users, i)
       /\ \A c \in AuthClients :
            (session[c] # NoUser /\ Me(c)) =>
               lastResp'.status = 200 /\ lastResp'.uid = session[c]._id
      ]_vars

NoVerifiedDoctor(e) ==
    \/ \A i \in DOMAIN users : users[i].email # e
    \/ \E i \in DOMAIN users :
          users[i].email = e /\ (users[i].role # "doctor" \/ ~users[i].verified)

OtherRowsKept(p, d) ==
    \A row \in BagToSet(access) \cup BagToSet(access') :
       (row.patientId # p \/ row.doctorId # d) =>
          CopiesIn(row, access') = CopiesIn(row, access)

\* C26: a grant-access or a revoke-access of patient p for doctor d, in each of its
\* steps, changes no access row of another (patientId, doctorId); the patientId a
\* grant works on is the id of the session user who sent it.
C26_OnlyOwnPair ==
    [][/\ \A c \in Clients :
            RevokeAccess(c, 3) => OtherRowsKept(session[c]._id, 3)
       /\ \A c \in Clients, e \in Emails \cup {NoSuchEmail} :
            GrantAccess(c, e) =>
               /\ access' = access
               /\ \A r \in BagToSet(inflight') :
                     r.kind = "grant-access" => r.patientId = r.uid
               /\ inflight' # inflight =>
                     \A r \in BagToSet(inflight') \ BagToSet(BagOfAll(Disturbed, inflight)) :
                        r.uid = session[c]._id
       /\ \A r \in BagToSet(inflight) :
            (GrantAccessDelete(r) \/ GrantAccessInsert(r)) =>
               r.patientId = r.uid /\ OtherRowsKept(r.uid, r.doctorId)
      ]_vars

\* Pat's revoke-access for Dan was answered 200 and took Pat's row, while the row
\* that Pam granted Dan is still stored
C26_Witness ==
    /\ lastResp.kind = "revoke-access" /\ lastResp.status = 200 /\ lastResp.uid = 2
    /\ ActiveRows(2, 3) = 0
    /\ ActiveRows(4, 3) >= 1
    /\ hist.op = "revoke"

\* C27: the user of every live session has verified = true, and its _id, email, role
\* and name are those of the stored user with that id.
C27_SessionMatchesStore ==
    \A c \in Clients :
       session[c] # NoUser =>
          /\ session[c].verified
          /\ session[c]._id \in DOMAIN users
          /\ session[c].email = users[session[c]._id].email
          /\ session[c].role = users[session[c]._id].role
          /\ session[c].name = users[session[c]._id].name

\* a session answered GET /api/me after the admin set its user's stored flag to false
C27_Witness ==
    /\ lastResp.kind = "me" /\ lastResp.status = 200 /\ lastResp.uid = session["c2"]._id
    /\ session["c2"] # NoUser
    /\ ~users[session["c2"]._id].verified

\* C28: a POST /api/logout answered 200 leaves its browser without a session user;
\* from then on a session user appears only through a login answered 200, and until
\* then every request of the browser to a route behind requireAuth is answered 401.
C28_LoggedOutUntilLogin ==
    [][\A c \in AuthClients :
          /\ (Logout(c) /\ lastResp'.status = 200) => session'[c] = NoUser
          /\ (session[c] = NoUser /\ session'[c] # NoUser) =>
                lastResp'.kind = "login" /\ lastResp'.status = 200
          /\ ( /\ session[c] = NoUser
               /\ inflight = EmptyBag
               /\ lastResp' # lastResp
               /\ lastResp'.kind \in GuardedRoutes ) =>
                lastResp'.status = 401 /\ lastResp'.msg = "Authentication required"
      ]_vars

\* Pat granted access, logged out, and the next GET /api/patient-access was answered
\* 401
C28_Witness ==
    /\ access # EmptyBag
    /\ session["c1"] = NoUser
    /\ lastResp.kind = "patient-access" /\ lastResp.status = 401

\* the stored users with verified = false and role patient or doctor
Unverified == {i \in DOMAIN users : ~users[i].verified /\ users[i].role # "admin"}

UnverifiedAfter == {i \in DOMAIN users' : ~users'[i].verified /\ users'[i].role # "admin"}

\* C29: GET /api/pending-verifications of an admin lists exactly the stored patients and
\* doctors with verified = false; a user leaves that set in a step exactly when the
\* step is an admin's verify-user with verified = true for the user, a verify-user
\* with verified = false leaves the user in it, and no admin is ever listed.
C29_PendingList ==
    [][/\ \A c \in Clients :
            (Guard(session[c], {"admin"}) = 0 /\ PendingVerifications(c)) =>
               /\ lastResp'.status = 200
               /\ lastResp'.records = Unverified
               /\ \A i \in lastResp'.records : users[i].role \in {"patient", "doctor"}
       /\ \A i \in Unverified :
            i \notin UnverifiedAfter <=>
               \E c \in Clients :
                  Guard(session[c], {"admin"}) = 0 /\ VerifyUser(c, i, TRUE)
       /\ \A c \in Clients, i \in Unverified :
            VerifyUser(c, i, FALSE) => i \in UnverifiedAfter
      ]_vars

\* the admin verified Dan and set the admin account's own flag to false; the list then
\* returned holds Pat alone
C29_Witness ==
    /\ lastResp.kind = "pending-verifications" /\ lastResp.status = 200
    /\ lastResp.records = {2}
    /\ ~users[1].verified /\ users[3].verified

\* the dashboard of a role: /doctor/overview for a doctor, /admin/overview for an
\* admin, /dashboard/overview otherwise
OwnDashboard(role) ==
    CASE role = "doctor" -> "/doctor/overview"
      [] role = "admin" -> "/admin/overview"
      [] OTHER -> "/dashboard/overview"

\* C30: whatever requiredRole it is given, ProtectedRoute renders its children only
\* when the /api/me query is not loading, a user is present and requiredRole is not
\* given or equals the user's role; when its effects change the path, the new path
\* is "/" with no user and the dashboard of the user's own role with a role
\* mismatch, and there ProtectedRoute renders the children and calls for no further
\* change of the path.
C30_ProtectedRoute ==
    [][/\ \A rr \in Roles \cup {NoRole} :
            ProtectedRoute(isLoading(browser), browser.user, rr).render = "children" =>
               /\ ~isLoading(browser)
               /\ browser.user # NoUser
               /\ rr = NoRole \/ browser.user.role = rr
       /\ ( /\ browser.status # "closed" /\ browser.location # "/"
            /\ ~isLoading(browser) /\ browser.user = NoUser
            /\ useEffect ) => browser'.location = "/"
       /\ ( /\ browser.status # "closed" /\ browser.location # "/"
            /\ browser.user # NoUser
            /\ browser.user.role # requiredRoleAt(browser.location)
            /\ useEffect ) =>
               /\ browser'.location = OwnDashboard(browser.user.role)
               /\ requiredRoleAt(browser'.location) = browser'.user.role
               /\ Mounted(browser').render = "children"
               /\ Mounted(browser').setLocation = NoLocation
       /\ (browser'.via = "effect" /\ browser'.location # browser.location) =>
              \/ ~isLoading(browser) /\ browser.user = NoUser
              \/ /\ browser.user # NoUser
                 /\ browser.user.role # requiredRoleAt(browser.location)
      ]_vars

\* Dan, a doctor, was at a path of another role's dashboard and the effect of its
\* ProtectedRoute sent the browser to /doctor/overview, which shows the dashboard
C30_Witness ==
    /\ browser.via = "effect"
    /\ browser.location = "/doctor/overview"
    /\ browser.user # NoUser /\ browser.user.role = "doctor"
    /\ Mounted(browser).render = "children"

====
